---- MODULE Spec2Model ----
(***************************************************************************)
(* OCS B2B API proxy (src/app.py, src/gunicorn_config.py).                 *)
(*                                                                         *)
(* Two gunicorn sync workers each handle one inbound request at a time.    *)
(* A handler checks the API key, validates its input, makes one blocking   *)
(* upstream call through OCSAPI._make_request and turns the result into a  *)
(* JSON response.  The upstream call is the only suspension point, so a    *)
(* handler is two steps: Begin (up to the call) and Complete (from the     *)
(* upstream's reply to the response).                                      *)
(*                                                                         *)
(* Strings of the source that are not ASCII are transliterated:            *)
(* "Krasnoyarsk" is the source's shipment city default.                    *)
(***************************************************************************)
EXTENDS Integers, Sequences, FiniteSets, TLC

(* ------------------------------ bounds --------------------------------- *)

\* Time to live of a stored reference-data answer (spec section 4.3), in ticks.
TTL == 1

(* ------------------------- program constants --------------------------- *)

workers == 2

Workers == 1..workers

DefaultCity == "Krasnoyarsk"

DefaultLimit == 50

(* --------------------------- Python values ----------------------------- *)
(* A value is a record [t, v, err]: t is its type, v its content, err      *)
(* whether a dict has an "error" member (v is then the member's text).     *)

PyNone == [t |-> "none", v |-> "", err |-> FALSE]

JList(v) == [t |-> "list", v |-> v, err |-> FALSE]

JEmptyList == [t |-> "list", v |-> "", err |-> FALSE]

JDict(v) == [t |-> "dict", v |-> v, err |-> FALSE]

JEmptyDict == [t |-> "dict", v |-> "", err |-> FALSE]

\* {"error": msg}
ErrorDict(msg) == [t |-> "dict", v |-> msg, err |-> TRUE]

\* A body that response.json() cannot parse.
Malformed == [t |-> "malformed", v |-> "", err |-> FALSE]

\* A request body of no bytes sent as application/json: request.get_json()
\* cannot parse it and raises BadRequest.
NoBody == [t |-> "nobody", v |-> "", err |-> FALSE]

\* bool(x)
Truthy(x) == x.t # "none" /\ (x.v # "" \/ x.err)

\* "error" in x, for a list or a dict x
HasError(x) == x.t = "dict" /\ x.err

(* ------------------------------- state --------------------------------- *)

VARIABLES
    api_key,    \* os.getenv('OCS_API_KEY'); "" when it is not set
    pc,         \* per worker: "idle" or "calling" (blocked in the upstream call)
    request,    \* per worker: the request it handles or handled last
    upstream,   \* per worker: the upstream request made for it, or NoCall
    outcome,    \* per worker: how that upstream call ended
    response,   \* per worker: the response sent, NoResponse while handling
    wire,       \* per worker: the parameters of its upstream request in the
                \* order requests writes them into the query string
    attempts,   \* per worker: the session calls made for its request
    inflight,   \* the number of session calls in progress
    waiting,    \* the inbound connections accepted by no worker yet
    stored      \* history: per reference-data endpoint, the last successful
                \* answer and its age now - stored_at (the entry a cache as in
                \* spec section 4.2 would hold); the program never reads it

vars == <<api_key, pc, request, upstream, outcome, response, wire, attempts, inflight,
         waiting, stored>>

\* The endpoints of the near-static reference data (spec section 4.3).
Reference == {"catalog/categories", "logistic/shipment/cities"}

\* The endpoints whose last successful answer the history keeps: the
\* reference data and the volatile currency exchange rates (spec section 4.3).
Remembered == Reference \cup {"account/currencies/exchanges"}

NoEntry == [present |-> FALSE, value |-> PyNone, age |-> 0]

Entry(value) == [present |-> TRUE, value |-> value, age |-> 0]

\* An answer for endpoint k is stored and now - stored_at < ttl.
Fresh(k) == k \in Reference /\ stored[k].present /\ stored[k].age < TTL

\* An answer for endpoint k is stored and has expired.
Expired(k) == k \in Reference /\ stored[k].present /\ stored[k].age >= TTL

(* --------------------------- query strings ----------------------------- *)
(* A parameter map is a function from the names present to their values.   *)
(* Inbound values are strings; a value of the params dict handed to        *)
(* requests is a string or an int.                                         *)

EmptyMap == [k \in {} |-> ""]

PyStr(s) == [t |-> "str", s |-> s, n |-> 0]

PyInt(n) == [t |-> "int", s |-> "", n |-> n]

\* request.args.get(name, default)
ArgsGet(args, name, default) == IF name \in DOMAIN args THEN args[name] ELSE default

\* How requests writes one parameter value into the query string.
UrlEncode(x) == IF x.t = "int" THEN ToString(x.n) ELSE x.s

\* The query string of a params dict (None is the empty query).
Query(params) == [k \in DOMAIN params |-> UrlEncode(params[k])]

\* dict d with d[name] = value
Put(d, name, value) == [k \in DOMAIN d \cup {name} |-> IF k = name THEN value ELSE d[k]]

\* **request.args.to_dict() as keyword arguments
KwArgs(args) == [k \in DOMAIN args |-> PyStr(args[k])]

(* A Python dict keeps its keys in insertion order, and requests writes the *)
(* query string in that order.  The order of a dict is a sequence of its    *)
(* keys; request.args.to_dict() has the order of the inbound query string.  *)

\* The elements of a sequence.
Range(seq) == {seq[i] : i \in DOMAIN seq}

\* The orders the keys S can be inserted in.
Orders(S) == {o \in [1..Cardinality(S) -> S] : \A i, j \in 1..Cardinality(S) : o[i] = o[j] => i = j}

\* One order of the keys of a parameter map.
AnOrder(d) == CHOOSE o \in Orders(DOMAIN d) : TRUE

\* d[name] = value appending the key even when the dict holds it already.
OrdPutAppend(order, name) == Append(order, name)

\* The key order after d[name] = value: a key the dict holds keeps its place.
OrdPut(order, name) == IF name \in Range(order) THEN order ELSE Append(order, name)

\* The name=value pairs of a query in the order of the params dict.
Pairs(query, order) == [i \in DOMAIN order |-> <<order[i], query[order[i]]>>]

\* The query string as written into the URL: name=value joined by "&".
RECURSIVE QueryString(_)
QueryString(pairs) ==
    IF pairs = <<>> THEN ""
    ELSE pairs[1][1] \o "=" \o pairs[1][2] \o
         (IF Len(pairs) = 1 THEN "" ELSE "&" \o QueryString(Tail(pairs)))

(* ---------------------- the upstream and its replies ------------------- *)

\* An upstream call as OCSAPI._make_request receives it.
Call(endpoint, params, method, data) ==
    [endpoint |-> endpoint, params |-> params, method |-> method, data |-> data]

NoCall ==
    [method |-> "", endpoint |-> "", query |-> EmptyMap, json |-> PyNone,
     headers |-> EmptyMap, timeout |-> <<>>]

\* timeout_config = (10, 20): the connect timeout and the read timeout, in seconds
connect_timeout == 10

read_timeout == 20

\* The headers the session adds to every request it sends.
SessionHeaders(key) ==
    [h \in {"accept", "X-API-Key", "User-Agent"} |->
        CASE h = "accept" -> "application/json"
          [] h = "X-API-Key" -> key
          [] h = "User-Agent" -> "OCS-Integration/1.0"]

\* The upstream answered with a status and a body.
Reply(status, body) == [exc |-> "none", status |-> status, body |-> body]

\* The session call raised an exception of requests.exceptions.
Raise(exc) == [exc |-> exc, status |-> 0, body |-> PyNone]

NoOutcome == [exc |-> "", status |-> 0, body |-> PyNone]

\* The classes an exception is an instance of (requests.exceptions:
\* ConnectTimeout derives from both ConnectionError and Timeout).
Bases(exc) ==
    CASE exc = "ConnectTimeout" -> {"ConnectTimeout", "ConnectionError", "Timeout", "Exception"}
      [] exc = "ReadTimeout" -> {"ReadTimeout", "Timeout", "Exception"}
      [] exc = "ConnectionError" -> {"ConnectionError", "Exception"}
      [] OTHER -> {exc, "Exception"}

\* str(e)
ExcText(exc) ==
    CASE exc = "JSONDecodeError" -> "Expecting value: line 1 column 1 (char 0)"
      [] exc = "TypeError" -> "got multiple values for keyword argument"
      [] exc = "BadRequest" -> "400 Bad Request: The browser (or proxy) sent a request that this server could not understand."
      [] exc = "AttributeError" -> "'list' object has no attribute 'get'"
      [] OTHER -> exc

\* The except clauses of _make_request, in the order ConnectionError, Timeout.
ExceptConnectionFirst(exc) ==
    IF "ConnectionError" \in Bases(exc) THEN ErrorDict("Connection error to OCS API")
    ELSE IF "Timeout" \in Bases(exc) THEN ErrorDict("Timeout connecting to OCS API")
    ELSE ErrorDict(ExcText(exc))

\* The except clauses of _make_request, each ending in `return None`.
ExceptSwallow(exc) == PyNone

\* The except clauses of _make_request.
Except(exc) ==
    IF "Timeout" \in Bases(exc) THEN ErrorDict("Timeout connecting to OCS API")
    ELSE IF "ConnectionError" \in Bases(exc) THEN ErrorDict("Connection error to OCS API")
    ELSE ErrorDict(ExcText(exc))

\* Send with DELETE going out without the session's headers.
SendDeleteBare(call) ==
    [method |-> call.method,
     endpoint |-> call.endpoint,
     query |-> Query(call.params),
     json |-> IF call.method \in {"POST", "PUT"} THEN call.data ELSE PyNone,
     headers |-> IF call.method = "DELETE" THEN EmptyMap ELSE SessionHeaders(api_key),
     timeout |-> <<connect_timeout, read_timeout>>]

\* Send with timeout=10 on POST: one value for the connect and the read timeout.
SendOneTimeout(call) ==
    [method |-> call.method,
     endpoint |-> call.endpoint,
     query |-> Query(call.params),
     json |-> IF call.method \in {"POST", "PUT"} THEN call.data ELSE PyNone,
     headers |-> SessionHeaders(api_key),
     timeout |-> IF call.method = "POST" THEN <<connect_timeout, connect_timeout>>
                 ELSE <<connect_timeout, read_timeout>>]

\* The request the session sends: method, url, query string, JSON body,
\* headers and timeouts.  GET and DELETE send no body.
Send(call) ==
    [method |-> call.method,
     endpoint |-> call.endpoint,
     query |-> Query(call.params),
     json |-> IF call.method \in {"POST", "PUT"} THEN call.data ELSE PyNone,
     headers |-> SessionHeaders(api_key),
     timeout |-> <<connect_timeout, read_timeout>>]

\* _make_request returning {} for a status other than 200.
_make_request_empty(out) ==
    IF out.exc # "none" THEN Except(out.exc)
    ELSE IF out.status = 200
         THEN IF out.body.t = "malformed" THEN Except("JSONDecodeError") ELSE out.body
         ELSE JEmptyDict

\* What _make_request returns for the upstream's outcome.
_make_request(out) ==
    IF out.exc # "none" THEN Except(out.exc)
    ELSE IF out.status = 200
         THEN IF out.body.t = "malformed" THEN Except("JSONDecodeError") ELSE out.body
         ELSE ErrorDict("OCS API returned " \o ToString(out.status))

(* ----------------------------- OCSAPI ---------------------------------- *)

OCSAPI_get_categories == Call("catalog/categories", EmptyMap, "GET", PyNone)

OCSAPI_get_shipment_cities == Call("logistic/shipment/cities", EmptyMap, "GET", PyNone)

\* params['limit'] = params.get('limit', 50)
WithLimit(params) ==
    Put(params, "limit", IF "limit" \in DOMAIN params THEN params["limit"] ELSE PyInt(DefaultLimit))

OCSAPI_get_products_by_category(categories, shipment_city, params) ==
    Call("catalog/categories/" \o categories \o "/products",
         WithLimit(Put(params, "shipmentcity", PyStr(shipment_city))), "GET", PyNone)

OCSAPI_search_products(search_term, shipment_city, params) ==
    Call("catalog/categories/all/products",
         WithLimit(Put(Put(params, "shipmentcity", PyStr(shipment_city)),
                       "search", PyStr(search_term))), "GET", PyNone)

OCSAPI_get_products_by_ids(item_ids, shipment_city, params) ==
    Call("catalog/products/" \o item_ids,
         Put(params, "shipmentcity", PyStr(shipment_city)), "GET", PyNone)

OCSAPI_get_products_batch(shipment_city, item_ids, params) ==
    Call("catalog/products/batch",
         Put(params, "shipmentcity", PyStr(shipment_city)), "POST", item_ids)

OCSAPI_create_order(order_data, synchronous) ==
    Call(IF ~synchronous THEN "orders" ELSE "orders/online/", EmptyMap, "POST", order_data)

OCSAPI_update_order(order_id, order_data, synchronous) ==
    Call((IF ~synchronous THEN "orders/" ELSE "orders/online/") \o order_id,
         EmptyMap, "PUT", order_data)

OCSAPI_delete_order(order_id, synchronous) ==
    Call((IF ~synchronous THEN "orders/" ELSE "orders/online/") \o order_id,
         EmptyMap, "DELETE", PyNone)

OCSAPI_sync_order(order_id, sync_data, synchronous) ==
    Call((IF ~synchronous THEN "orders/" ELSE "orders/online/") \o order_id \o "/sync",
         EmptyMap, "PUT", sync_data)

OCSAPI_transfer_lines_to_manager(transfer_data, synchronous) ==
    Call(IF ~synchronous THEN "orders/lines/transfer-to-manager"
         ELSE "orders/online/lines/transfer-to-manager", EmptyMap, "POST", transfer_data)

OCSAPI_create_shipment_stock(shipment_data) ==
    Call("shipments/stock", EmptyMap, "POST", shipment_data)

OCSAPI_get_certificates_batch(item_ids, actuality) ==
    Call("catalog/products/batch/certificates", Put(EmptyMap, "actuality", PyStr(actuality)),
         "POST", item_ids)

OCSAPI_get_content_batch(item_ids) == Call("content/batch", EmptyMap, "POST", item_ids)

OCSAPI_get_content_changes(from_date) ==
    Call("content/changes", Put(EmptyMap, "from", PyStr(from_date)), "GET", PyNone)

\* params = {'shipmentcity': shipment_city}
CityParams(shipment_city) == Put(EmptyMap, "shipmentcity", PyStr(shipment_city))

OCSAPI_get_stock_locations(shipment_city) ==
    Call("logistic/stocks/locations", CityParams(shipment_city), "GET", PyNone)

OCSAPI_get_pickup_points(shipment_city) ==
    Call("logistic/shipment/pickup-points", CityParams(shipment_city), "GET", PyNone)

OCSAPI_get_delivery_addresses(shipment_city) ==
    Call("logistic/shipment/delivery-addresses", CityParams(shipment_city), "GET", PyNone)

OCSAPI_get_transport_companies(shipment_city) ==
    Call("logistic/shipment/terminal-tc/transport-companies", CityParams(shipment_city),
         "GET", PyNone)

OCSAPI_get_terminal_addresses(shipment_city) ==
    Call("logistic/shipment/terminal-tc/addresses", CityParams(shipment_city), "GET", PyNone)

OCSAPI_get_currencies_exchange == Call("account/currencies/exchanges", EmptyMap, "GET", PyNone)

\* The key order of the params dict an OCSAPI method hands to requests, from
\* the order of the keyword arguments it received.
ParamOrder(route, order, query) ==
    CASE route = "get_products_by_category" -> OrdPut(OrdPut(order, "shipmentcity"), "limit")
      [] route = "search_products" ->
            OrdPut(OrdPut(OrdPut(order, "shipmentcity"), "search"), "limit")
      [] route \in {"get_products_by_ids", "get_products_batch"} -> OrdPut(order, "shipmentcity")
      [] OTHER -> AnOrder(query)

(* ------------------------------ routes --------------------------------- *)
(* An inbound request is [route, seg, args, body]: the route function that *)
(* Flask dispatches to, the variable path segment, the query parameters    *)
(* and the JSON body.  A response is [status, success, error, data, kind,  *)
(* new_endpoint, headers]: kind is "json" for a jsonify body with a        *)
(* success member, data is PyNone when the body has no data member,        *)
(* new_endpoint is "" when it has no new_endpoint member, headers is the   *)
(* set of its name-value header lines.                                     *)

Request(route, seg, args, body) == [route |-> route, seg |-> seg, args |-> args, body |-> body]

NoRequest == Request("", "", EmptyMap, PyNone)

Response(status, success, error, data) ==
    [status |-> status, success |-> success, error |-> error, data |-> data,
     kind |-> "json", new_endpoint |-> "",
     headers |-> {<<"Content-Type", "application/json">>}]

NoResponse == Response(0, FALSE, "", PyNone)

\* if not ocs_api: ... return response, 500
KeyMissing == Response(500, FALSE, "API key not configured", PyNone)

\* return response, 400
BadRequest(error) == Response(400, FALSE, error, PyNone)

\* except Exception as e: the body carries str(e); `return response` sends 200.
ExceptionResponse(exc) == Response(200, FALSE, ExcText(exc), PyNone)

\* The page Flask sends for an exception that no handler catches.
Unhandled == [Response(500, FALSE, "", PyNone) EXCEPT !.kind = "html"]

\* A deprecated path: its body names the replacement; return response, 301
Deprecated(new) == [Response(301, FALSE, "endpoint deprecated", PyNone) EXCEPT !.new_endpoint = new]

\* The header lines after_request adds.
CorsHeaders ==
    {<<"Access-Control-Allow-Origin", "*">>,
     <<"Access-Control-Allow-Headers", "Content-Type,Authorization,X-API-Key">>,
     <<"Access-Control-Allow-Methods", "GET,PUT,POST,DELETE,OPTIONS">>}

\* after_request adding its headers to the responses below 400 only.
after_request_ok_only(resp) ==
    IF resp.status >= 400 THEN resp
    ELSE [resp EXCEPT !.headers = @ \cup CorsHeaders \cup {<<"Content-Type", "application/json">>}]

\* Flask passes every response through after_request before sending it.
after_request(resp) ==
    [resp EXCEPT !.headers = @ \cup CorsHeaders \cup {<<"Content-Type", "application/json">>}]

\* The handler ends without an upstream call.
Respond(resp) == [act |-> "respond", call |-> NoCall, resp |-> resp]

\* The handler calls the upstream and waits for it.
DoCall(call) == [act |-> "call", call |-> Send(call), resp |-> NoResponse]

\* f(name=..., **kwargs) raises TypeError when kwargs repeats a named argument.
Clash(named, args) == named \cap DOMAIN args # {}

\* The value compared as it arrived, without .lower().
LowerSkipped(s) == s

\* str.lower() on the values that occur
Lower(s) == IF s \in {"TRUE", "True", "tRuE"} THEN "true" ELSE s

\* get_categories answering from a stored answer younger than TTL.
get_categories_cached(req) ==
    IF Fresh("catalog/categories")
    THEN Respond(Response(200, TRUE, "", stored["catalog/categories"].value))
    ELSE DoCall(OCSAPI_get_categories)

get_categories(req) == DoCall(OCSAPI_get_categories)

\* get_cities answering at once from an expired stored answer.
get_cities_stale(req) ==
    IF Expired("logistic/shipment/cities")
    THEN Respond(Response(200, TRUE, "", stored["logistic/shipment/cities"].value))
    ELSE DoCall(OCSAPI_get_shipment_cities)

get_cities(req) == DoCall(OCSAPI_get_shipment_cities)

get_products_by_category(req) ==
    LET shipment_city == ArgsGet(req.args, "shipment_city", DefaultCity)
        category == IF req.seg \in {"undefined", "null", ""} THEN "all" ELSE req.seg
    IN  IF Clash({"categories", "shipment_city"}, req.args)
        THEN Respond(ExceptionResponse("TypeError"))
        ELSE DoCall(OCSAPI_get_products_by_category(category, shipment_city, KwArgs(req.args)))

search_products(req) ==
    LET search_term == ArgsGet(req.args, "q", "")
        shipment_city == ArgsGet(req.args, "shipment_city", DefaultCity)
    IN  IF search_term = ""
        THEN Respond(BadRequest("search query missing"))
        ELSE IF Clash({"search_term", "shipment_city"}, req.args)
        THEN Respond(ExceptionResponse("TypeError"))
        ELSE DoCall(OCSAPI_search_products(search_term, shipment_city, KwArgs(req.args)))

get_products_by_ids(req) ==
    LET shipment_city == ArgsGet(req.args, "shipment_city", DefaultCity)
    IN  IF Clash({"item_ids", "shipment_city"}, req.args)
        THEN Respond(ExceptionResponse("TypeError"))
        ELSE DoCall(OCSAPI_get_products_by_ids(req.seg, shipment_city, KwArgs(req.args)))

get_products_batch(req) ==
    LET data == req.body
        shipment_city == ArgsGet(req.args, "shipment_city", DefaultCity)
    IN  IF data = NoBody THEN Respond(ExceptionResponse("BadRequest"))
        ELSE IF ~Truthy(data) \/ data.t # "list"
        THEN Respond(BadRequest("invalid data format"))
        ELSE IF Clash({"shipment_city", "item_ids"}, req.args)
        THEN Respond(ExceptionResponse("TypeError"))
        ELSE DoCall(OCSAPI_get_products_batch(shipment_city, data, KwArgs(req.args)))

create_order(req) ==
    LET data == req.body
        synchronous == Lower(ArgsGet(req.args, "synchronous", "false")) = "true"
    IN  IF data = NoBody THEN Respond(ExceptionResponse("BadRequest"))
        ELSE IF ~Truthy(data)
        THEN Respond(BadRequest("invalid data format"))
        ELSE DoCall(OCSAPI_create_order(data, synchronous))

update_order(req) ==
    LET data == req.body
        synchronous == Lower(ArgsGet(req.args, "synchronous", "false")) = "true"
    IN  IF data = NoBody THEN Respond(ExceptionResponse("BadRequest"))
        ELSE IF ~Truthy(data)
        THEN Respond(BadRequest("invalid data format"))
        ELSE DoCall(OCSAPI_update_order(req.seg, data, synchronous))

delete_order(req) ==
    LET synchronous == Lower(ArgsGet(req.args, "synchronous", "false")) = "true"
    IN  DoCall(OCSAPI_delete_order(req.seg, synchronous))

get_stock_locations(req) ==
    DoCall(OCSAPI_get_stock_locations(ArgsGet(req.args, "shipment_city", DefaultCity)))

get_pickup_points(req) ==
    DoCall(OCSAPI_get_pickup_points(ArgsGet(req.args, "shipment_city", DefaultCity)))

get_delivery_addresses(req) ==
    DoCall(OCSAPI_get_delivery_addresses(ArgsGet(req.args, "shipment_city", DefaultCity)))

get_transport_companies(req) ==
    DoCall(OCSAPI_get_transport_companies(ArgsGet(req.args, "shipment_city", DefaultCity)))

get_terminal_addresses(req) ==
    DoCall(OCSAPI_get_terminal_addresses(ArgsGet(req.args, "shipment_city", DefaultCity)))

\* get_currencies_exchange answering from the last successful answer.
get_currencies_exchange_kept(req) ==
    IF stored["account/currencies/exchanges"].present
    THEN Respond(Response(200, TRUE, "", stored["account/currencies/exchanges"].value))
    ELSE DoCall(OCSAPI_get_currencies_exchange)

get_currencies_exchange(req) == DoCall(OCSAPI_get_currencies_exchange)

sync_order(req) ==
    LET data == req.body
        synchronous == Lower(ArgsGet(req.args, "synchronous", "false")) = "true"
    IN  IF data = NoBody THEN Respond(ExceptionResponse("BadRequest"))
        ELSE IF ~Truthy(data)
        THEN Respond(BadRequest("invalid data format"))
        ELSE DoCall(OCSAPI_sync_order(req.seg, data, synchronous))

transfer_lines_to_manager(req) ==
    LET data == req.body
        synchronous == Lower(ArgsGet(req.args, "synchronous", "false")) = "true"
    IN  IF data = NoBody THEN Respond(ExceptionResponse("BadRequest"))
        ELSE IF ~Truthy(data)
        THEN Respond(BadRequest("invalid data format"))
        ELSE DoCall(OCSAPI_transfer_lines_to_manager(data, synchronous))

create_shipment_stock(req) ==
    LET data == req.body
    IN  IF data = NoBody THEN Respond(ExceptionResponse("BadRequest"))
        ELSE IF ~Truthy(data)
        THEN Respond(BadRequest("invalid data format"))
        ELSE DoCall(OCSAPI_create_shipment_stock(data))

get_certificates_batch(req) ==
    LET data == req.body
    IN  IF data = NoBody THEN Respond(ExceptionResponse("BadRequest"))
        ELSE IF ~Truthy(data) \/ data.t # "list"
        THEN Respond(BadRequest("invalid data format"))
        ELSE DoCall(OCSAPI_get_certificates_batch(data, ArgsGet(req.args, "actuality", "actual")))

get_content_batch(req) ==
    LET data == req.body
    IN  IF data = NoBody THEN Respond(ExceptionResponse("BadRequest"))
        ELSE IF ~Truthy(data) \/ data.t # "list"
        THEN Respond(BadRequest("invalid data format"))
        ELSE DoCall(OCSAPI_get_content_batch(data))

get_content_changes(req) ==
    LET from_date == ArgsGet(req.args, "from", "")
    IN  IF from_date = ""
        THEN Respond(BadRequest("start date missing"))
        ELSE DoCall(OCSAPI_get_content_changes(from_date))

\* /api/v2/test asks the upstream for the shipment cities.
test_api(req) == DoCall(OCSAPI_get_shipment_cities)

\* make_response('', 200): the answer to an OPTIONS request under /api/v2/
options_handler(req) == Respond([Response(200, FALSE, "", PyNone) EXCEPT !.kind = "empty"])

\* The deprecated paths and the new_endpoint each one's body names.
OldRoutes ==
    {"old_get_categories", "old_health_check", "old_test_api", "old_get_cities",
     "old_get_products_by_category", "old_search_products"}

old_get_categories(req) == Respond(Deprecated("/api/v2/catalog/categories"))

old_health_check(req) == Respond(Deprecated("/api/v2/health"))

old_test_api(req) == Respond(Deprecated("/api/v2/test"))

old_get_cities(req) == Respond(Deprecated("/api/v2/logistic/shipment/cities"))

old_get_products_by_category(req) ==
    Respond(Deprecated("/api/v2/catalog/categories/{category}/products"))

old_search_products(req) == Respond(Deprecated("/api/v2/catalog/categories/all/products"))

\* The route functions without an `if not ocs_api` test.
KeyFree(req) ==
    CASE req.route = "options_handler" -> options_handler(req)
      [] req.route = "old_get_categories" -> old_get_categories(req)
      [] req.route = "old_health_check" -> old_health_check(req)
      [] req.route = "old_test_api" -> old_test_api(req)
      [] req.route = "old_get_cities" -> old_get_cities(req)
      [] req.route = "old_get_products_by_category" -> old_get_products_by_category(req)
      [] req.route = "old_search_products" -> old_search_products(req)

\* The data route functions after their `if not ocs_api` test.
Dispatch(req) ==
    CASE req.route = "get_categories" -> get_categories(req)
      [] req.route = "get_cities" -> get_cities(req)
      [] req.route = "get_products_by_category" -> get_products_by_category(req)
      [] req.route = "search_products" -> search_products(req)
      [] req.route = "get_products_by_ids" -> get_products_by_ids(req)
      [] req.route = "get_products_batch" -> get_products_batch(req)
      [] req.route = "create_order" -> create_order(req)
      [] req.route = "update_order" -> update_order(req)
      [] req.route = "delete_order" -> delete_order(req)
      [] req.route = "sync_order" -> sync_order(req)
      [] req.route = "transfer_lines_to_manager" -> transfer_lines_to_manager(req)
      [] req.route = "create_shipment_stock" -> create_shipment_stock(req)
      [] req.route = "get_certificates_batch" -> get_certificates_batch(req)
      [] req.route = "get_content_batch" -> get_content_batch(req)
      [] req.route = "get_content_changes" -> get_content_changes(req)
      [] req.route = "test_api" -> test_api(req)
      [] req.route = "get_stock_locations" -> get_stock_locations(req)
      [] req.route = "get_pickup_points" -> get_pickup_points(req)
      [] req.route = "get_delivery_addresses" -> get_delivery_addresses(req)
      [] req.route = "get_transport_companies" -> get_transport_companies(req)
      [] req.route = "get_terminal_addresses" -> get_terminal_addresses(req)
      [] req.route = "get_currencies_exchange" -> get_currencies_exchange(req)

\* Handler with delete_order lacking its `if not ocs_api` test.
HandlerDeleteUnchecked(key, req) ==
    IF req.route \in OldRoutes \cup {"options_handler"} THEN KeyFree(req)
    ELSE IF key = "" /\ req.route # "delete_order" THEN Respond(KeyMissing)
    ELSE Dispatch(req)

\* Handler with the deprecated paths behind the `if not ocs_api` test.
HandlerOldChecked(key, req) ==
    IF req.route = "options_handler" THEN KeyFree(req)
    ELSE IF key = "" THEN Respond(KeyMissing)
    ELSE IF req.route \in OldRoutes THEN KeyFree(req)
    ELSE Dispatch(req)

\* The route function up to its upstream call.
Handler(key, req) ==
    IF req.route \in OldRoutes \cup {"options_handler"} THEN KeyFree(req)
    ELSE IF key = "" THEN Respond(KeyMissing)
    ELSE Dispatch(req)

\* {"result": []}
EmptyResult == [t |-> "dict", v |-> "result: []", err |-> FALSE]

\* The `X or default` of each route's success body.
DefaultData(route) ==
    CASE route \in {"get_categories", "get_cities", "get_stock_locations", "get_pickup_points",
                    "get_delivery_addresses", "get_transport_companies",
                    "get_terminal_addresses", "get_currencies_exchange",
                    "get_content_changes", "test_api"} -> JEmptyList
      [] route \in {"create_order", "update_order", "delete_order", "sync_order",
                    "transfer_lines_to_manager", "create_shipment_stock"} -> JEmptyDict
      [] OTHER -> EmptyResult

\* The error body with demo data added.
ErrorBodyWithDemo(X) == Response(200, FALSE, X.v, JList("demo"))

\* if X and "error" in X: the error body
ErrorBody(X) == Response(200, FALSE, X.v, PyNone)

\* The endpoint a reference-data route asks for.
EndpointOf(route) ==
    IF route = "get_categories" THEN "catalog/categories" ELSE "logistic/shipment/cities"

\* Finish answering an upstream error from the stored answer when there is one.
FinishStaleOnError(route, X) ==
    IF Truthy(X) /\ HasError(X)
    THEN IF stored[EndpointOf(route)].present
         THEN Response(200, TRUE, "", stored[EndpointOf(route)].value)
         ELSE ErrorBody(X)
    ELSE Response(200, TRUE, "", IF Truthy(X) THEN X ELSE DefaultData(route))

\* Finish with `X and default` in place of `X or default`.
FinishAndDefault(route, X) ==
    IF Truthy(X) /\ HasError(X) THEN ErrorBody(X)
    ELSE Response(200,
                  IF route \in {"get_categories", "get_cities"} THEN TRUE ELSE Truthy(X),
                  "",
                  IF Truthy(X) THEN DefaultData(route) ELSE X)

\* Finish building the success body after its try block: the
\* AttributeError of a result that is no dict is caught by no handler.
FinishUncaught(route, X) ==
    IF Truthy(X) /\ HasError(X) THEN ErrorBody(X)
    ELSE IF route \in {"get_products_by_category", "search_products"} /\ Truthy(X) /\ X.t # "dict"
    THEN Unhandled
    ELSE Response(200,
                  IF route \in {"get_categories", "get_cities", "test_api"} THEN TRUE
                  ELSE Truthy(X),
                  "",
                  IF Truthy(X) THEN X ELSE DefaultData(route))

\* Finish answering an empty upstream result from the last answer kept.
FinishKeepLast(route, X) ==
    IF Truthy(X) /\ HasError(X) THEN ErrorBody(X)
    ELSE IF route \in {"get_products_by_category", "search_products"} /\ Truthy(X) /\ X.t # "dict"
    THEN ExceptionResponse("AttributeError")
    ELSE Response(200,
                  IF route \in {"get_categories", "get_cities", "test_api"} THEN TRUE
                  ELSE Truthy(X),
                  "",
                  IF Truthy(X) THEN X
                  ELSE IF route \in {"get_categories", "get_cities"}
                          /\ stored[EndpointOf(route)].present
                       THEN stored[EndpointOf(route)].value
                       ELSE DefaultData(route))

\* The route function from the result X of its upstream call to its response.
Finish(route, X) ==
    IF Truthy(X) /\ HasError(X) THEN ErrorBody(X)
    ELSE IF route \in {"get_products_by_category", "search_products"} /\ Truthy(X) /\ X.t # "dict"
    THEN ExceptionResponse("AttributeError")
    ELSE Response(200,
                  IF route \in {"get_categories", "get_cities", "test_api"} THEN TRUE
                  ELSE Truthy(X),
                  "",
                  IF Truthy(X) THEN X ELSE DefaultData(route))

(* ------------------------------ inputs --------------------------------- *)

ApiKeys == {"", "secret"}

Values == {"V1", "V2"}

\* How an upstream call can end.
Outcomes ==
    {Reply(200, b) : b \in {JList(v) : v \in Values} \cup
                           {JEmptyList, ErrorDict("upstream error"), Malformed}}
    \cup {Reply(s, PyNone) : s \in {201, 500}}
    \cup {Raise(e) : e \in {"ReadTimeout", "ConnectTimeout", "ConnectionError"}}

\* Inbound requests for the reference data.
Requests == {Request(r, "", EmptyMap, PyNone) : r \in {"get_categories", "get_cities"}}

\* The query parameters of the products routes: shipment_city absent, at its
\* default or at another value, and limit absent or at its default.
ProductArgs ==
    {[k \in d |-> IF k = "shipment_city" THEN c ELSE "50"] :
        d \in SUBSET {"shipment_city", "limit"}, c \in {DefaultCity, "Moscow"}}

\* Inbound requests for the products and order routes.
RouteRequests ==
    {Request("get_products_by_category", "c1", a, PyNone) : a \in ProductArgs}
    \cup {Request("search_products", "", EmptyMap, PyNone)}
    \cup {Request("search_products", "", Put(a, "q", "abc"), PyNone) : a \in ProductArgs}
    \cup {Request("get_products_by_ids", "i1", a, PyNone) : a \in ProductArgs}
    \cup {Request("get_products_batch", "", EmptyMap, JEmptyList)}
    \cup {Request("get_products_batch", "", a, JList("i1")) : a \in ProductArgs}
    \cup {Request("create_order", "", a, b) :
            a \in {EmptyMap, [synchronous |-> "true"]}, b \in {JEmptyDict, JDict("V1")}}

Init ==
    /\ api_key \in ApiKeys
    /\ pc = [w \in Workers |-> "idle"]
    /\ request = [w \in Workers |-> NoRequest]
    /\ upstream = [w \in Workers |-> NoCall]
    /\ outcome = [w \in Workers |-> NoOutcome]
    /\ response = [w \in Workers |-> NoResponse]
    /\ wire = [w \in Workers |-> <<>>]
    /\ attempts = [w \in Workers |-> 0]
    /\ inflight = 0
    /\ waiting = 0
    /\ stored = [k \in Remembered |-> NoEntry]

\* A worker taking a request while its earlier upstream call is in progress.
HandleUnguarded(w, req, order) ==
    /\ LET plan == Handler(api_key, req)
       IN  IF plan.act = "call"
           THEN /\ pc' = [pc EXCEPT ![w] = "calling"]
                /\ upstream' = [upstream EXCEPT ![w] = plan.call]
                /\ response' = [response EXCEPT ![w] = NoResponse]
                /\ wire' = [wire EXCEPT ![w] =
                              Pairs(plan.call.query, ParamOrder(req.route, order, plan.call.query))]
                /\ attempts' = [attempts EXCEPT ![w] = 1]
                /\ inflight' = inflight + 1
           ELSE /\ pc' = [pc EXCEPT ![w] = "idle"]
                /\ upstream' = [upstream EXCEPT ![w] = NoCall]
                /\ response' = [response EXCEPT ![w] = after_request(plan.resp)]
                /\ wire' = [wire EXCEPT ![w] = <<>>]
                /\ attempts' = [attempts EXCEPT ![w] = 0]
                /\ inflight' = inflight
    /\ request' = [request EXCEPT ![w] = req]
    /\ outcome' = [outcome EXCEPT ![w] = NoOutcome]
    /\ UNCHANGED <<api_key, stored>>

\* Idle worker w runs the handler of request req, whose query parameters
\* arrived in the given order, up to the upstream call (one session call,
\* in which the worker blocks), or to the response when the handler makes
\* none.
Handle(w, req, order) ==
    /\ pc[w] = "idle"
    /\ LET plan == Handler(api_key, req)
       IN  IF plan.act = "call"
           THEN /\ pc' = [pc EXCEPT ![w] = "calling"]
                /\ upstream' = [upstream EXCEPT ![w] = plan.call]
                /\ response' = [response EXCEPT ![w] = NoResponse]
                /\ wire' = [wire EXCEPT ![w] =
                              Pairs(plan.call.query, ParamOrder(req.route, order, plan.call.query))]
                /\ attempts' = [attempts EXCEPT ![w] = 1]
                /\ inflight' = inflight + 1
           ELSE /\ pc' = [pc EXCEPT ![w] = "idle"]
                /\ upstream' = [upstream EXCEPT ![w] = NoCall]
                /\ response' = [response EXCEPT ![w] = after_request(plan.resp)]
                /\ wire' = [wire EXCEPT ![w] = <<>>]
                /\ attempts' = [attempts EXCEPT ![w] = 0]
                /\ inflight' = inflight
    /\ request' = [request EXCEPT ![w] = req]
    /\ outcome' = [outcome EXCEPT ![w] = NoOutcome]
    /\ UNCHANGED <<api_key, stored>>

\* Worker w takes request req; its query parameters arrived in one order.
Begin(w, req) == Handle(w, req, AnOrder(req.args)) /\ UNCHANGED waiting

\* Complete calling the session again when its call timed out.
CompleteRetry(w, out) ==
    /\ pc[w] = "calling"
    /\ IF "Timeout" \in Bases(out.exc)
       THEN /\ attempts' = [attempts EXCEPT ![w] = @ + 1]
            /\ UNCHANGED <<pc, response, stored, inflight>>
       ELSE /\ LET resp == after_request(Finish(request[w].route, _make_request(out)))
                   k == upstream[w].endpoint
               IN  /\ response' = [response EXCEPT ![w] = resp]
                   /\ stored' = IF k \in Remembered /\ resp.success
                                THEN [stored EXCEPT ![k] = Entry(resp.data)]
                                ELSE stored
            /\ pc' = [pc EXCEPT ![w] = "idle"]
            /\ inflight' = inflight - 1
            /\ UNCHANGED attempts
    /\ outcome' = [outcome EXCEPT ![w] = out]
    /\ UNCHANGED <<api_key, request, upstream, wire, waiting>>

\* Complete waiting for the upstream once more when its call timed out.
CompleteWaitAgain(w, out) ==
    /\ pc[w] = "calling"
    /\ IF "Timeout" \in Bases(out.exc)
       THEN UNCHANGED <<pc, response, stored, inflight>>
       ELSE /\ LET resp == after_request(Finish(request[w].route, _make_request(out)))
                   k == upstream[w].endpoint
               IN  /\ response' = [response EXCEPT ![w] = resp]
                   /\ stored' = IF k \in Remembered /\ resp.success
                                THEN [stored EXCEPT ![k] = Entry(resp.data)]
                                ELSE stored
            /\ pc' = [pc EXCEPT ![w] = "idle"]
            /\ inflight' = inflight - 1
    /\ outcome' = [outcome EXCEPT ![w] = out]
    /\ UNCHANGED <<api_key, request, upstream, wire, attempts, waiting>>

\* The upstream call of worker w ends with outcome out; _make_request
\* returns, and the handler builds and sends its response.
Complete(w, out) ==
    /\ pc[w] = "calling"
    /\ LET resp == after_request(Finish(request[w].route, _make_request(out)))
           k == upstream[w].endpoint
       IN  /\ response' = [response EXCEPT ![w] = resp]
           /\ stored' = IF k \in Remembered /\ resp.success
                        THEN [stored EXCEPT ![k] = Entry(resp.data)]
                        ELSE stored
    /\ outcome' = [outcome EXCEPT ![w] = out]
    /\ pc' = [pc EXCEPT ![w] = "idle"]
    /\ inflight' = inflight - 1
    /\ UNCHANGED <<api_key, request, upstream, wire, attempts, waiting>>

\* Time passes: every stored answer grows one tick older.  An age stops at
\* TTL: an answer that old is expired however long ago it was stored.
Tick ==
    /\ \E k \in Reference : stored[k].present /\ stored[k].age < TTL
    /\ stored' = [k \in Remembered |->
                    IF k \in Reference /\ stored[k].present /\ stored[k].age < TTL
                    THEN [stored[k] EXCEPT !.age = @ + 1]
                    ELSE stored[k]]
    /\ UNCHANGED <<api_key, pc, request, upstream, outcome, response, wire, attempts,
                   inflight, waiting>>

Next ==
    \/ \E w \in Workers, req \in Requests : Begin(w, req)
    \/ \E w \in Workers, out \in Outcomes : Complete(w, out)
    \/ Tick

\* The reference-data routes, with the clock.
Spec == Init /\ [][Next]_vars

NextRoutes ==
    \/ \E w \in Workers, req \in RouteRequests : Begin(w, req)
    \/ \E w \in Workers, out \in Outcomes : Complete(w, out)

\* The products and order routes.
SpecRoutes == Init /\ [][NextRoutes]_vars

\* Inbound requests over the four upstream methods, the OPTIONS preflight
\* and a deprecated path.
MethodRequests ==
    {Request("get_categories", "", EmptyMap, PyNone)}
    \cup {Request("create_order", "", EmptyMap, b) : b \in {JEmptyDict, JDict("V1")}}
    \cup {Request("update_order", "o1", a, b) :
            a \in {EmptyMap, [synchronous |-> "true"]}, b \in {JEmptyDict, JDict("V1")}}
    \cup {Request("delete_order", "o1", a, PyNone) : a \in {EmptyMap, [synchronous |-> "true"]}}
    \cup {Request("options_handler", "catalog/categories", EmptyMap, PyNone),
          Request("old_get_categories", "", EmptyMap, PyNone)}

NextMethods ==
    \/ \E w \in Workers, req \in MethodRequests : Begin(w, req)
    \/ \E w \in Workers, out \in Outcomes : Complete(w, out)

\* GET, POST, PUT and DELETE routes, OPTIONS and a deprecated path.
SpecMethods == Init /\ [][NextMethods]_vars

\* The routes that read the inbound query parameter shipment_city.
CityRoutes ==
    {"get_products_by_category", "search_products", "get_products_by_ids",
     "get_products_batch", "get_stock_locations", "get_pickup_points",
     "get_delivery_addresses", "get_transport_companies", "get_terminal_addresses"}

\* shipment_city absent or supplied.
CityArgs == {EmptyMap, [shipment_city |-> "Moscow"]}

\* Valid inbound requests for the routes that read shipment_city.
CityRequests ==
    {Request(r, IF r \in {"get_products_by_category", "get_products_by_ids"} THEN "c1" ELSE "",
             IF r = "search_products" THEN Put(a, "q", "abc") ELSE a,
             IF r = "get_products_batch" THEN JList("i1") ELSE PyNone) :
        r \in CityRoutes, a \in CityArgs}

NextCity ==
    \/ \E w \in Workers, req \in CityRequests : Begin(w, req)
    \/ \E w \in Workers, out \in Outcomes : Complete(w, out)

\* The routes that read shipment_city.
SpecCity == Init /\ [][NextCity]_vars

\* Inbound requests for the currency exchange rates and the categories.
CurrencyRequests ==
    {Request(r, "", EmptyMap, PyNone) : r \in {"get_currencies_exchange", "get_categories"}}

NextCurrency ==
    \/ \E w \in Workers, req \in CurrencyRequests : Begin(w, req)
    \/ \E w \in Workers, out \in Outcomes : Complete(w, out)

\* The currency exchange rates next to a reference-data route.
SpecCurrency == Init /\ [][NextCurrency]_vars

\* The most inbound connections that wait for a worker.
MaxWaiting == 3

\* A client connects; the connection waits in the listen queue.
Arrive ==
    /\ waiting < MaxWaiting
    /\ waiting' = waiting + 1
    /\ UNCHANGED <<api_key, pc, request, upstream, outcome, response, wire, attempts,
                   inflight, stored>>

\* Idle worker w accepts a waiting connection and handles its request.
Accept(w, req) ==
    /\ waiting > 0
    /\ waiting' = waiting - 1
    /\ Handle(w, req, AnOrder(req.args))

NextPool ==
    \/ Arrive
    \/ \E w \in Workers, req \in Requests : Accept(w, req)
    \/ \E w \in Workers, out \in Outcomes : Complete(w, out)

\* The worker pool with its queue of waiting connections.
SpecPool == Init /\ [][NextPool]_vars

\* The worker pool where every upstream call ends (by a reply, a connection
\* failure or its timeout) and an idle worker goes back to accept().
SpecPoolLive ==
    /\ Init /\ [][NextPool]_vars
    /\ \A w \in Workers :
          /\ WF_vars(\E out \in Outcomes : Complete(w, out))
          /\ WF_vars(\E req \in Requests : Accept(w, req))

\* Inbound requests for data routes of every shape: no input, a path
\* segment, query parameters (one with the keyword clash), a JSON body (one
\* that cannot be read).
DataRequests ==
    {Request(r, "", EmptyMap, PyNone) : r \in {"get_categories", "test_api"}}
    \cup {Request("get_products_by_category", "c1", a, PyNone) :
            a \in {EmptyMap, [shipment_city |-> "Moscow"]}}
    \cup {Request("get_products_batch", "", EmptyMap, JList("i1"))}
    \cup {Request("create_order", "", EmptyMap, b) : b \in {JDict("V1"), NoBody}}
    \cup {Request("delete_order", "o1", EmptyMap, PyNone)}
    \cup {Request("get_content_changes", "", [from |-> "2024-01-01"], PyNone)}

NextData ==
    \/ \E w \in Workers, req \in DataRequests : Begin(w, req)
    \/ \E w \in Workers, out \in Outcomes : Complete(w, out)

\* Data routes of every shape.
SpecData == Init /\ [][NextData]_vars

\* Query parameters that the products routes pass through to the upstream.
KeyArgs == {[k \in d |-> IF k = "limit" THEN "10" ELSE "abc"] : d \in SUBSET {"limit", "q"}}

\* Inbound requests whose query parameters arrive in every order.
KeyRequests ==
    {Request("get_products_by_category", "c1", a, PyNone) : a \in KeyArgs}
    \cup {Request("search_products", "", a, PyNone) : a \in KeyArgs}

\* Worker w takes request req, whose query string lists its parameters in
\* the given order.
BeginOrdered(w, req, order) == Handle(w, req, order) /\ UNCHANGED waiting

NextKeys ==
    \/ \E w \in Workers, req \in KeyRequests :
            \E order \in Orders(DOMAIN req.args) : BeginOrdered(w, req, order)
    \/ \E w \in Workers, out \in Outcomes : Complete(w, out)

\* The products routes with the order of the inbound query parameters.
SpecKeys == Init /\ [][NextKeys]_vars

(* ------------------------------ claims --------------------------------- *)

\* Worker w has sent the response to its request.
Done(w) == pc[w] = "idle" /\ response[w] # NoResponse

\* Worker w made an upstream call for its request.
Called(w) == upstream[w] # NoCall

\* Worker w takes a request in this step and blocks in its upstream call.
StartsCall(w) == pc[w] = "idle" /\ pc'[w] = "calling"

\* The upstream call of worker w ends in this step.
EndsCall(w) == pc[w] = "calling" /\ pc'[w] = "idle"

\* The upstream call failed: a timeout, a connection error, a status that is
\* not 2xx, or a 200 whose body cannot be parsed.
Failed(out) ==
    \/ out.exc \notin {"none", ""}
    \/ out.exc = "none" /\ out.status \notin 200..299
    \/ out.exc = "none" /\ out.status = 200 /\ out.body.t = "malformed"

C4_ColdMissPropagation ==
    [][\A w \in Workers :
        (EndsCall(w) /\ ~stored[upstream[w].endpoint].present /\ Failed(outcome'[w])) =>
            /\ ~response'[w].success
            /\ response'[w].error # ""]_vars

\* C4 witness: a call failed with nothing stored for its endpoint.
C4_Witness ==
    \E w \in Workers :
        /\ Done(w) /\ Called(w) /\ Failed(outcome[w])
        /\ ~stored[upstream[w].endpoint].present
        /\ ~response[w].success

ProductRoutes ==
    {"get_products_by_category", "search_products", "get_products_by_ids", "get_products_batch"}

\* The optional parameters a route gives a default: shipment_city on every
\* products route, limit where the client sets it (by category and search).
HasDefault(route, p) ==
    \/ p = "shipment_city" /\ route \in ProductRoutes
    \/ p = "limit" /\ route \in {"get_products_by_category", "search_products"}

\* The default of an optional parameter, as an inbound query value.
DefaultArg(p) == IF p = "shipment_city" THEN DefaultCity ELSE ToString(DefaultLimit)

\* Worker w has taken a request and run its handler at least up to the call.
Handled(w) == pc[w] = "calling" \/ Done(w)

\* C6 as stated (defaults before key): a products request without an optional
\* parameter and the same request with the parameter at its default yield
\* the same upstream request and, for the same upstream outcome, the same
\* response.
C6_DefaultsBeforeKey ==
    \A w1, w2 \in Workers : \A p \in {"shipment_city", "limit"} :
        ( /\ api_key # ""
          /\ Handled(w1) /\ Handled(w2)
          /\ HasDefault(request[w1].route, p)
          /\ p \notin DOMAIN request[w1].args
          /\ request[w2] = [request[w1] EXCEPT !.args = Put(@, p, DefaultArg(p))] ) =>
            /\ upstream[w1] = upstream[w2]
            /\ (Done(w1) /\ Done(w2) /\ outcome[w1] = outcome[w2]) => response[w1] = response[w2]

\* C7 as stated: a failed upstream call with no earlier answer stored yields
\* success false, an error text and an HTTP error status.
C7_ErrorStatus ==
    \A w \in Workers :
        ( /\ Done(w) /\ Called(w) /\ Failed(outcome[w])
          /\ ~stored[upstream[w].endpoint].present ) =>
            /\ ~response[w].success
            /\ response[w].error # ""
            /\ response[w].status \in 400..599

\* The error text of an upstream HTTP error with the given status.
HttpErrorText(status) == "OCS API returned " \o ToString(status)

\* C8 as stated: an upstream reply is answered as an upstream HTTP error if
\* and only if its status is not 2xx.
C8_Non2xxIsError ==
    \A w \in Workers :
        (Done(w) /\ Called(w) /\ outcome[w].exc = "none") =>
            ( response[w].error = HttpErrorText(outcome[w].status)
              <=> outcome[w].status \notin 200..299 )

\* The kind of a failed upstream call.
FailureKind(out) ==
    CASE out.exc \in {"ReadTimeout", "ConnectTimeout"} -> "timeout"
      [] out.exc = "ConnectionError" -> "unavailable"
      [] out.exc = "none" /\ out.status # 200 -> "http"
      [] OTHER -> "malformed"

\* The error text that names a failure.
ExpectedError(out) ==
    CASE FailureKind(out) = "timeout" -> "Timeout connecting to OCS API"
      [] FailureKind(out) = "unavailable" -> "Connection error to OCS API"
      [] FailureKind(out) = "http" -> HttpErrorText(out.status)
      [] OTHER -> "Expecting value: line 1 column 1 (char 0)"

\* C9 (error taxonomy): a failed upstream call yields success false and the
\* error text of its kind (a connect timeout that of a timeout), and calls
\* that failed in different ways yield different results.
C9_ErrorTaxonomy ==
    /\ \A w \in Workers :
        (Done(w) /\ Called(w) /\ Failed(outcome[w])) =>
            ~response[w].success /\ response[w].error = ExpectedError(outcome[w])
    /\ \A w1, w2 \in Workers :
        ( /\ Done(w1) /\ Called(w1) /\ Failed(outcome[w1])
          /\ Done(w2) /\ Called(w2) /\ Failed(outcome[w2])
          /\ FailureKind(outcome[w1]) # FailureKind(outcome[w2]) ) =>
            response[w1].error # response[w2].error

\* C9 witness: a connect timeout was answered as a timeout while the other
\* worker's connection error was answered as unavailable.
C9_Witness ==
    \E w1, w2 \in Workers :
        /\ Done(w1) /\ outcome[w1] = Raise("ConnectTimeout")
        /\ response[w1].error = "Timeout connecting to OCS API"
        /\ Done(w2) /\ outcome[w2] = Raise("ConnectionError")
        /\ response[w2].error = "Connection error to OCS API"

\* The upstream was unavailable or timed out.
Unreachable(out) == out.exc \in {"ReadTimeout", "ConnectTimeout", "ConnectionError"}

\* C10 as stated (placeholder fallback): when the upstream is unavailable or
\* times out and nothing is stored, the response carries data.
C10_PlaceholderFallback ==
    \A w \in Workers :
        ( /\ Done(w) /\ Called(w) /\ Unreachable(outcome[w])
          /\ ~stored[upstream[w].endpoint].present ) =>
            response[w].data # PyNone

\* C10 amended: such a response has no data member, placeholder or other.
C10_ErrorOnly ==
    \A w \in Workers :
        ( /\ Done(w) /\ Called(w) /\ Unreachable(outcome[w])
          /\ ~stored[upstream[w].endpoint].present ) =>
            response[w].data = PyNone

\* C10 witness: the upstream timed out with nothing stored for the endpoint.
C10_Witness ==
    \E w \in Workers :
        /\ Done(w) /\ Called(w) /\ outcome[w] = Raise("ReadTimeout")
        /\ ~stored[upstream[w].endpoint].present
        /\ response[w].error # ""

\* Workers w1 and w2 made upstream calls for requests with the same route,
\* path and parameter map.
SameParams(w1, w2) == w1 # w2 /\ Called(w1) /\ Called(w2) /\ request[w1] = request[w2]

\* The names of the parameters written into the upstream query of worker w.
WireNames(w) == {p[1] : p \in Range(wire[w])}

C13_ApiKeyInjection ==
    \A w \in Workers :
        Called(w) =>
            /\ api_key # ""
            /\ "X-API-Key" \in DOMAIN upstream[w].headers
            /\ upstream[w].headers["X-API-Key"] = api_key

\* A PUT and a DELETE were sent upstream.
C13_Witness ==
    \E w1, w2 \in Workers :
        /\ Called(w1) /\ upstream[w1].method = "PUT"
        /\ Called(w2) /\ upstream[w2].method = "DELETE"

\* C14 (CORS on every response): every response sent carries
\* Access-Control-Allow-Origin: * and the Allow-Headers and Allow-Methods
\* headers, whatever its status.
C14_CorsEverywhere ==
    \A w \in Workers :
        response[w] # NoResponse =>
            /\ <<"Access-Control-Allow-Origin", "*">> \in response[w].headers
            /\ \E h \in response[w].headers : h[1] = "Access-Control-Allow-Headers"
            /\ \E h \in response[w].headers : h[1] = "Access-Control-Allow-Methods"

\* A 301 of a deprecated path and the answer to an OPTIONS preflight were sent.
C14_Witness ==
    \E w1, w2 \in Workers :
        /\ response[w1].status = 301
        /\ request[w2].route = "options_handler" /\ response[w2].status = 200

\* C15 as stated (shipment-city reshaping): a valid request for a route that
\* reads shipment_city goes upstream with shipmentcity equal to the value
\* supplied, or to the default city when none is supplied.
C15_ShipmentCity ==
    \A w \in Workers :
        (api_key # "" /\ Handled(w) /\ request[w].route \in CityRoutes) =>
            /\ Called(w)
            /\ "shipmentcity" \in DOMAIN upstream[w].query
            /\ upstream[w].query["shipmentcity"] =
                   ArgsGet(request[w].args, "shipment_city", DefaultCity)

\* C17 (timeout on every upstream call): every upstream call, whatever its
\* method and endpoint, is issued with a connect timeout of 10 s and a read
\* timeout of 20 s.
C17_TimeoutOnEveryCall ==
    \A w \in Workers :
        Called(w) =>
            /\ Len(upstream[w].timeout) = 2
            /\ upstream[w].timeout[1] = 10
            /\ upstream[w].timeout[2] = 20
            /\ upstream[w].timeout[1] # upstream[w].timeout[2]

\* A GET and a POST were issued.
C17_Witness ==
    \E w1, w2 \in Workers :
        /\ Called(w1) /\ upstream[w1].method = "GET"
        /\ Called(w2) /\ upstream[w2].method = "POST"

\* C16 (bounded retry): a request causes at most 3 upstream attempts; after
\* a timeout no further attempt is in progress for the request, which is
\* answered as failed.
C16_BoundedRetry ==
    \A w \in Workers :
        /\ attempts[w] <= 3
        /\ pc[w] = "calling" => outcome[w] = NoOutcome
        /\ (Done(w) /\ "Timeout" \in Bases(outcome[w].exc)) =>
                /\ attempts[w] = 1
                /\ ~response[w].success
                /\ response[w].error = "Timeout connecting to OCS API"

\* A request whose upstream call timed out was answered.
C16_Witness ==
    \E w \in Workers : Done(w) /\ outcome[w].exc = "ReadTimeout" /\ attempts[w] = 1

\* C18 (volatile data is never served from a stored value): every request
\* for the currency exchange rates handled with the API key configured has
\* its own upstream call, and when that call fails the request is answered
\* as failed, without data, whatever was answered before.
C18_CurrencyNeverStored ==
    \A w \in Workers :
        (api_key # "" /\ Handled(w) /\ request[w].route = "get_currencies_exchange") =>
            /\ Called(w)
            /\ upstream[w].endpoint = "account/currencies/exchanges"
            /\ (Done(w) /\ Failed(outcome[w])) =>
                    /\ ~response[w].success
                    /\ response[w].error # ""
                    /\ response[w].data = PyNone

\* A worker that answered a currency request successfully before (no other
\* worker has handled anything) answered its next one as failed.
C18_Witness ==
    \E w \in Workers :
        /\ Done(w) /\ request[w].route = "get_currencies_exchange"
        /\ Unreachable(outcome[w]) /\ ~response[w].success
        /\ stored["account/currencies/exchanges"].present
        /\ \A v \in Workers \ {w} : request[v] = NoRequest

\* C19 as stated (search is not cached): every search request with a
\* non-empty q handled with the API key configured has its own upstream
\* call, and no search result is kept.
C19_SearchNotCached ==
    \A w \in Workers :
        ( /\ api_key # "" /\ Handled(w)
          /\ request[w].route = "search_products"
          /\ ArgsGet(request[w].args, "q", "") # "" ) =>
            /\ Called(w)
            /\ upstream[w].query["search"] = request[w].args["q"]
            /\ \A k \in DOMAIN stored : stored[k].present => k # upstream[w].endpoint

\* C20 (bounded in-flight upstream calls): the number of upstream calls in
\* progress never exceeds the number of workers, however many connections
\* wait.
C20_BoundedInFlight ==
    /\ inflight <= workers
    /\ inflight = Cardinality({w \in Workers : pc[w] = "calling"})

\* Every worker is in an upstream call while the queue is full.
C20_Witness == inflight = workers /\ waiting = MaxWaiting

\* The routes that answer without looking at the API key.
NoKeyRoutes == OldRoutes \cup {"options_handler"}

\* C21 (missing API key): when no key is configured no upstream call is
\* ever made, and every request for a data route is answered HTTP 500 with
\* success false.
C21_MissingKey ==
    api_key = "" =>
        /\ inflight = 0
        /\ \A w \in Workers :
              /\ ~Called(w)
              /\ pc[w] = "idle"
              /\ (request[w] # NoRequest /\ request[w].route \notin NoKeyRoutes) =>
                    /\ response[w].status = 500
                    /\ ~response[w].success
                    /\ response[w].kind = "json"

\* Without a key, a POST with a valid body and the API test were answered.
C21_Witness ==
    /\ api_key = ""
    /\ \E w1, w2 \in Workers :
          /\ Done(w1) /\ request[w1].route = "create_order" /\ Truthy(request[w1].body)
          /\ Done(w2) /\ request[w2].route = "test_api"

\* C23 (no unhandled exception): with the key configured every answer of a
\* data route is a JSON body with a success member; a keyword clash, a body
\* that cannot be read, a result that is no dict and an exception of the
\* session call each end in success false with the exception's text.
C23_NoUnhandledException ==
    \A w \in Workers :
        (api_key # "" /\ Done(w) /\ request[w].route \notin NoKeyRoutes) =>
            /\ response[w].kind = "json"
            /\ response[w].success \in BOOLEAN
            /\ ( request[w].route = "get_products_by_category"
                 /\ "shipment_city" \in DOMAIN request[w].args ) =>
                    /\ ~response[w].success
                    /\ response[w].error = "got multiple values for keyword argument"
            /\ request[w].body = NoBody =>
                    /\ ~response[w].success
                    /\ response[w].error = ExcText("BadRequest")
            /\ ( request[w].route = "get_products_by_category"
                 /\ outcome[w].exc = "none" /\ outcome[w].status = 200
                 /\ outcome[w].body.t = "list" /\ outcome[w].body.v # "" ) =>
                    /\ ~response[w].success
                    /\ response[w].error = "'list' object has no attribute 'get'"
            /\ outcome[w].exc \notin {"none", ""} =>
                    /\ ~response[w].success
                    /\ response[w].error # ""

\* A keyword clash and a result that is no dict were both answered.
C23_Witness ==
    \E w1, w2 \in Workers :
        /\ api_key # "" /\ Done(w1) /\ Done(w2)
        /\ response[w1].error = "got multiple values for keyword argument"
        /\ response[w2].error = "'list' object has no attribute 'get'"

\* C24 (success only after an upstream 200): a response with success true
\* belongs to a request whose own upstream call returned HTTP 200 with a
\* body that parses and has no error member.
C24_SuccessOnlyAfter200 ==
    \A w \in Workers :
        (Done(w) /\ response[w].success) =>
            /\ Called(w)
            /\ outcome[w].exc = "none"
            /\ outcome[w].status = 200
            /\ outcome[w].body.t \in {"list", "dict", "none"}
            /\ ~outcome[w].body.err

\* The API test answered success true on an empty list from the upstream.
C24_Witness ==
    \E w \in Workers :
        /\ Done(w) /\ response[w].success /\ request[w].route = "test_api"
        /\ outcome[w] = Reply(200, JEmptyList)

\* ---------------------------------------------------------------------
\* Input validation
\* ---------------------------------------------------------------------

\* Inbound requests to the routes that validate their input, with inputs
\* that pass and inputs that fail: a query parameter absent, empty and set;
\* a JSON body that is [], {}, null, unreadable (zero-length) and well-formed.
ValidationRequests ==
    {Request("search_products", "", a, PyNone) : a \in {EmptyMap, [q |-> ""], [q |-> "abc"]}}
    \cup {Request("get_content_changes", "", a, PyNone) :
            a \in {EmptyMap, [from |-> ""], [from |-> "2024-01-01"]}}
    \cup {Request(r, "", EmptyMap, b) :
            r \in {"get_products_batch", "get_certificates_batch", "get_content_batch"},
            b \in {JEmptyList, JDict("V1"), PyNone, NoBody, JList("i1")}}
    \cup {Request(r, "", EmptyMap, b) :
            r \in {"create_order", "create_shipment_stock"},
            b \in {JEmptyDict, PyNone, NoBody, JDict("V1")}}
    \cup {Request("update_order", "o1", EmptyMap, b) :
            b \in {JEmptyDict, PyNone, NoBody, JDict("V1")}}

NextValidation ==
    \/ \E w \in Workers, req \in ValidationRequests : Begin(w, req)
    \/ \E w \in Workers, out \in Outcomes : Complete(w, out)

\* The validating routes.
SpecValidation == Init /\ [][NextValidation]_vars

BatchRoutes == {"get_products_batch", "get_certificates_batch", "get_content_batch"}

BodyRoutes == {"create_order", "update_order", "create_shipment_stock"}

\* The request fails input validation, in the words of the claim.
Invalid(req) ==
    \/ req.route = "search_products" /\ ArgsGet(req.args, "q", "") = ""
    \/ req.route = "get_content_changes" /\ ArgsGet(req.args, "from", "") = ""
    \/ req.route \in BatchRoutes /\ req.body \in {JEmptyList, JDict("V1"), PyNone, NoBody}
    \/ req.route \in BodyRoutes /\ req.body \in {JEmptyDict, PyNone, NoBody}

\* C22: with the key configured, a request that fails input validation
\* (search without a non-empty q, content/changes without from, a batch
\* route whose body is empty or not a list, an order or shipment POST/PUT
\* whose body is empty or absent) is answered 400 with success=false and
\* makes no upstream call.
C22_ValidationBeforeForwarding ==
    \A w \in Workers :
        (api_key # "" /\ request[w] # NoRequest /\ Invalid(request[w]))
        => /\ Done(w)
           /\ response[w].status = 400
           /\ ~response[w].success
           /\ ~Called(w)

\* What holds of every failed validation: no upstream call, success=false.
C22_NoForwarding ==
    \A w \in Workers :
        (api_key # "" /\ request[w] # NoRequest /\ Invalid(request[w]))
        => Done(w) /\ ~response[w].success /\ ~Called(w)

\* A body that is present and falsy, or not a list, is answered 400.
C22_Reached400 ==
    \E w \in Workers :
        /\ api_key # "" /\ Done(w) /\ response[w].status = 400
        /\ request[w].route = "create_order" /\ request[w].body = JEmptyDict

\* ---------------------------------------------------------------------
\* Stateless handling
\* ---------------------------------------------------------------------

OldRequests ==
    {Request(r, "", EmptyMap, PyNone) :
        r \in OldRoutes \cup {"get_categories", "get_cities", "test_api"}}

NextOld ==
    \/ \E w \in Workers, req \in OldRequests : Begin(w, req)
    \/ \E w \in Workers, out \in Outcomes : Complete(w, out)

\* The deprecated paths next to their replacements.
SpecOld == Init /\ [][NextOld]_vars

\* The rule of each /api/v2 route that replaces a deprecated path, its
\* <path:category> converter written {category}.
RoutePath ==
    [health_check |-> "/api/v2/health",
     test_api |-> "/api/v2/test",
     get_categories |-> "/api/v2/catalog/categories",
     get_cities |-> "/api/v2/logistic/shipment/cities",
     get_products_by_category |-> "/api/v2/catalog/categories/{category}/products",
     search_products |-> "/api/v2/catalog/categories/all/products"]

\* The /api/v2 route that does the work of each deprecated path.
Replaces ==
    [old_get_categories |-> "get_categories",
     old_health_check |-> "health_check",
     old_test_api |-> "test_api",
     old_get_cities |-> "get_cities",
     old_get_products_by_category |-> "get_products_by_category",
     old_search_products |-> "search_products"]

\* C27: a request for a deprecated path is answered at once, with or
\* without an API key, by HTTP 301 with success false and a new_endpoint
\* that is the path of its /api/v2 replacement, and no upstream call.
C27_DeprecatedRoutes ==
    \A w \in Workers :
        (request[w] # NoRequest /\ request[w].route \in OldRoutes)
        => /\ Done(w)
           /\ response[w].status = 301
           /\ ~response[w].success
           /\ response[w].new_endpoint = RoutePath[Replaces[request[w].route]]
           /\ ~Called(w)
           /\ outcome[w] = NoOutcome

\* Without an API key one worker answered /api/products/search with 301
\* while the other answered the replacement of another path with 500.
C27_Witness ==
    \E w1, w2 \in Workers :
        /\ api_key = ""
        /\ Done(w1) /\ request[w1].route = "old_search_products"
        /\ response[w1].status = 301
        /\ Done(w2) /\ request[w2].route = "get_cities" /\ response[w2].status = 500

\* ---------------------------------------------------------------------
\* Synchronous order endpoints
\* ---------------------------------------------------------------------

OrderRoutes ==
    {"create_order", "update_order", "delete_order", "sync_order", "transfer_lines_to_manager"}

\* The query parameter synchronous: absent, 'true' in three spellings, and
\* four other values.
SynchronousArgs ==
    {EmptyMap} \cup
    {[synchronous |-> v] : v \in {"true", "TRUE", "True", "false", "1", "yes", ""}}

\* Inbound requests for the five order routes, each with a JSON object
\* where the route reads one.
OrderRequests ==
    {Request(r, "", a, JDict("V1")) :
        r \in {"create_order", "transfer_lines_to_manager"}, a \in SynchronousArgs}
    \cup {Request(r, "o1", a, JDict("V1")) :
            r \in {"update_order", "sync_order"}, a \in SynchronousArgs}
    \cup {Request("delete_order", "o1", a, PyNone) : a \in SynchronousArgs}

\* The worker that takes the order requests.
OrderWorker == CHOOSE w \in Workers : TRUE

NextOrders ==
    \/ \E req \in OrderRequests : Begin(OrderWorker, req)
    \/ \E out \in Outcomes : Complete(OrderWorker, out)

\* The order routes, their requests handled one after the other.
SpecOrders == Init /\ [][NextOrders]_vars

\* The methods each order route is registered for.
InboundMethod ==
    [create_order |-> "POST", update_order |-> "PUT", delete_order |-> "DELETE",
     sync_order |-> "PUT", transfer_lines_to_manager |-> "POST"]

\* The two upstream paths of an order route for order id.
PlainPath(route, id) ==
    CASE route = "create_order" -> "orders"
      [] route = "update_order" -> "orders/" \o id
      [] route = "delete_order" -> "orders/" \o id
      [] route = "sync_order" -> "orders/" \o id \o "/sync"
      [] route = "transfer_lines_to_manager" -> "orders/lines/transfer-to-manager"

OnlinePath(route, id) ==
    CASE route = "create_order" -> "orders/online/"
      [] route = "update_order" -> "orders/online/" \o id
      [] route = "delete_order" -> "orders/online/" \o id
      [] route = "sync_order" -> "orders/online/" \o id \o "/sync"
      [] route = "transfer_lines_to_manager" -> "orders/online/lines/transfer-to-manager"

\* The inbound request asks for synchronous handling: its parameter
\* synchronous is 'true' in some spelling.
AsksSynchronous(req) ==
    "synchronous" \in DOMAIN req.args /\ req.args["synchronous"] \in {"true", "TRUE", "True"}

\* C28: with the key configured, a request for create, update, delete,
\* sync or transfer-to-manager goes upstream on the 'orders/online/...'
\* path exactly when its parameter synchronous is 'true' in any spelling,
\* on the plain 'orders/...' path otherwise, and with the method of the
\* inbound request.
C28_SynchronousEndpoints ==
    \A w \in Workers :
        (api_key # "" /\ request[w] # NoRequest /\ request[w].route \in OrderRoutes)
        => /\ Called(w)
           /\ upstream[w].endpoint =
                 IF AsksSynchronous(request[w])
                 THEN OnlinePath(request[w].route, request[w].seg)
                 ELSE PlainPath(request[w].route, request[w].seg)
           /\ upstream[w].method = InboundMethod[request[w].route]

\* A sync request with synchronous=TRUE went upstream on the online path
\* with PUT and was answered.
C28_Witness ==
    \E w \in Workers :
        /\ request[w] = Request("sync_order", "o1", [synchronous |-> "TRUE"], JDict("V1"))
        /\ upstream[w].endpoint = "orders/online/o1/sync" /\ upstream[w].method = "PUT"
        /\ Done(w) /\ response[w].success

\* ---------------------------------------------------------------------
\* Placeholder category rewrite
\* ---------------------------------------------------------------------

\* Inbound products-by-category requests: the two placeholders and two
\* category ids, without parameters, with limit and with shipment_city.
\* (The segment 'all' is routed to search_products, the empty one to no
\* route.)
CategoryRequests ==
    {Request("get_products_by_category", c, a, PyNone) :
        c \in {"undefined", "null", "c1", "c2"},
        a \in {EmptyMap, [limit |-> "10"], [shipment_city |-> "Moscow"]}}

NextCategory ==
    \/ \E w \in Workers, req \in CategoryRequests : Begin(w, req)
    \/ \E w \in Workers, out \in Outcomes : Complete(w, out)

\* The products-by-category route.
SpecCategory == Init /\ [][NextCategory]_vars

\* The category a products-by-category request is forwarded as.
ForwardedCategory(seg) == IF seg \in {"undefined", "null"} THEN "all" ELSE seg

\* C29: with the key configured, a products-by-category request is
\* forwarded upstream on catalog/categories/<category>/products, where
\* <category> is 'all' for the path segments 'undefined' and 'null' and the
\* segment itself otherwise, and carries no search term.
C29_PlaceholderRewrite ==
    \A w \in Workers :
        (api_key # "" /\ request[w] # NoRequest
            /\ request[w].route = "get_products_by_category")
        => /\ Called(w)
           /\ upstream[w].endpoint =
                 "catalog/categories/" \o ForwardedCategory(request[w].seg) \o "/products"
           /\ "search" \notin DOMAIN upstream[w].query

\* What holds: the same for the requests that bring no shipment_city.
C29_RewriteWithoutCity ==
    \A w \in Workers :
        (api_key # "" /\ request[w] # NoRequest
            /\ request[w].route = "get_products_by_category"
            /\ "shipment_city" \notin DOMAIN request[w].args)
        => /\ Called(w)
           /\ upstream[w].endpoint =
                 "catalog/categories/" \o ForwardedCategory(request[w].seg) \o "/products"
           /\ "search" \notin DOMAIN upstream[w].query

\* The placeholder 'undefined' went upstream as 'all' and was answered.
C29_Rewritten ==
    \E w \in Workers :
        /\ Done(w) /\ outcome[w] = Reply(200, JEmptyList)
        /\ request[w].seg = "undefined"
        /\ upstream[w].endpoint = "catalog/categories/all/products"

====
